---- MODULE Spec2Model ----
(***************************************************************************)
(* pycsw administrative data plane (pycsw/core/admin.py): load_records,    *)
(* export_records, refresh_harvested_records and delete_records, run one   *)
(* command at a time against one catalog table, one metadata directory     *)
(* tree and one export directory.                                          *)
(***************************************************************************)
EXTENDS Integers, Sequences, FiniteSets, TLC

(***************************************************************************)
(* Bounds                                                                  *)
(***************************************************************************)
\* number of admin commands started in one behaviour
MaxOps == 2

\* longest identifier of the hostile records of SpecSanitize
MaxIdLen == 4

(***************************************************************************)
(* Documents.  A document is a sequence of tokens: an XML declaration      *)
(* line, a well-formed XML body, a JSON text, or junk (an unclosed tag).   *)
(* A body carries the identifiers the dialect mapping finds in it.         *)
(***************************************************************************)
IdA    == <<"a">>
IdTrav == <<".", ".", "/", "a">>
IdB    == <<"b">>
IdH    == <<"h">>

Decl == [k |-> "decl", ids |-> <<>>, body |-> "", mappable |-> FALSE]
Junk == [k |-> "junk", ids |-> <<>>, body |-> "", mappable |-> FALSE]
Xml(ids, body)  == [k |-> "xml",  ids |-> ids, body |-> body, mappable |-> TRUE]
Json(ids, body) == [k |-> "json", ids |-> ids, body |-> body, mappable |-> TRUE]
XmlForeign == [k |-> "xml", ids |-> <<>>, body |-> "x", mappable |-> FALSE]

File(raw)  == [readable |-> TRUE, raw |-> raw]
Unreadable == [readable |-> FALSE, raw |-> <<>>]

DocXmlA    == File(<<Xml(<<IdA>>, "v1")>>)
DocXmlA2   == File(<<Decl, Xml(<<IdA>>, "v2")>>)
DocJsonB   == File(<<Json(<<IdB>>, "v1")>>)
DocTwo     == File(<<Xml(<<IdA, IdTrav>>, "v1")>>)
DocBad     == File(<<Junk>>)
DocForeign == File(<<XmlForeign>>)
DocXmlH    == File(<<Xml(<<IdH>>, "v2")>>)

(***************************************************************************)
(* The file system.  A path is a string, modelled as the sequence of its    *)
(* characters.  Directories /1 to /8 are batches of metadata files; /t is a *)
(* tree with a hidden file, a file that is neither .xml nor .json, a        *)
(* subdirectory /t/s and a subdirectory named /t/s.xml.                     *)
(***************************************************************************)
DotXml  == <<".", "x", "m", "l">>
DotJson == <<".", "j", "s", "o", "n">>
DotTxt  == <<".", "t", "x", "t">>

\* os.path.join(d, name)
Slash(d, name) == d \o <<"/">> \o name

BatchDir(n)   == <<"/", n>>
InBatch(n, i, ext) == Slash(BatchDir(n), <<i>> \o ext)

Top    == <<"/", "t">>
Sub    == Slash(Top, <<"s">>)
SubXml == Slash(Top, <<"s">> \o DotXml)
Missing == <<"/", "n">>

\* the regular files: path -> content
FileSystem ==
    (InBatch("1", "1", DotXml)  :> DocXmlA)  @@
    (InBatch("1", "2", DotJson) :> DocJsonB) @@
    (InBatch("2", "1", DotXml)  :> DocXmlA)  @@
    (InBatch("2", "2", DotXml)  :> DocBad)   @@
    (InBatch("2", "3", DotJson) :> DocJsonB) @@
    (InBatch("3", "1", DotXml)  :> DocBad)   @@
    (InBatch("3", "2", DotJson) :> DocJsonB) @@
    (InBatch("4", "1", DotXml)  :> DocTwo)   @@
    (InBatch("4", "2", DotJson) :> DocJsonB) @@
    (InBatch("5", "1", DotJson) :> DocJsonB) @@
    (InBatch("5", "2", DotXml)  :> DocTwo)   @@
    (InBatch("6", "1", DotXml)  :> DocXmlA2) @@
    (InBatch("7", "1", DotXml)  :> DocXmlA)  @@
    (InBatch("7", "2", DotXml)  :> DocXmlA2) @@
    (InBatch("7", "3", DotXml)  :> DocXmlH)  @@
    (InBatch("8", "1", DotXml)  :> Unreadable) @@
    (InBatch("8", "2", DotXml)  :> DocForeign) @@
    (InBatch("8", "3", DotXml)  :> DocXmlA)  @@
    (Slash(Top, <<"a">> \o DotXml)      :> DocXmlA)  @@
    (Slash(Top, <<"a">> \o DotJson)     :> DocJsonB) @@
    (Slash(Top, <<".", "h">> \o DotXml) :> DocXmlH)  @@
    (Slash(Top, <<"c">> \o DotTxt)      :> DocTwo)   @@
    (Slash(Sub, <<"d">> \o DotXml)      :> DocXmlA2) @@
    (Slash(Sub, <<"e">> \o DotJson)     :> DocJsonB) @@
    (Slash(SubXml, <<"f">> \o DotXml)   :> DocTwo)

\* the metadata directories load_records is pointed at in batch runs
BatchDirs == { BatchDir(n) : n \in {"1", "2", "3", "4", "5", "6", "7", "8"} }

Directories == BatchDirs \cup {Top, Sub, SubXml}

\* everything that has a path
Entries == (DOMAIN FileSystem) \cup Directories

\* the paths load_records is pointed at when the scanner is examined: the
\* tree, its subdirectories, single files of either kind, a path that does
\* not exist
ScanPaths ==
    { Top, Sub, SubXml, Missing,
      Slash(Top, <<"a">> \o DotJson), Slash(Top, <<"c">> \o DotTxt) }

\* a load that records the directory it read as the source
LocalSource_Remote == "file:///metadata"

\* repo.insert(rec, 'local', util.get_today_and_now())
LocalSource  == "local"
RemoteSource == "http://remote/csw"
CswSchema    == "http://www.opengis.net/cat/csw/2.0.2"
GmdLegacy    == "http://www.isotc211.org/2005/gmd"
GmdCanonical == "http://www.isotc211.org/schemas/2005/gmd/"

VARIABLES
    pc,             \* "idle", "load", "export", "refresh"
    ops,            \* commands started so far; also the wall clock
    result,         \* how the last command ended
    catalog,        \* rows of the records table
    xml_dirpath,    \* load_records: the xml_dirpath argument
    recursive,      \* load_records: the recursive argument
    dir,            \* load_records: the entries of file_list, path -> content
    sorted_files,   \* load_records: sorted(file_list)
    opened,         \* load_records: the paths opened so far, in order
    force_update,   \* load_records: the force_update argument
    counter,        \* load_records: files of sorted(file_list) taken so far
    recfile,        \* load_records: path of the file being processed
    record,         \* load_records: records of recfile not yet inserted
    loaded_files,   \* load_records: the success set
    outcomes,       \* load_records: per file, the repository calls made
    cat0,           \* catalog when the running command started
    outdirExists,   \* export directory exists
    outdir,         \* export directory: filename -> content
    todo,           \* export_records / refresh: rows still to iterate
    exported_files, \* export_records: the returned collection
    export_log,     \* export_records: record taken -> how its write went
    remote          \* refresh: calls made to the remote endpoint

vars == <<pc, ops, result, catalog, xml_dirpath, recursive, dir,
          sorted_files, opened, force_update, counter, recfile,
          record, loaded_files, outcomes, cat0, outdirExists, outdir, todo,
          exported_files, export_log, remote>>

scanVars    == <<xml_dirpath, recursive, dir, sorted_files>>
loadVars    == <<scanVars, opened, force_update, counter, recfile, record, loaded_files,
                 outcomes>>
exportVars  == <<outdirExists, outdir, exported_files, export_log>>

\* a command starts with the locals of the commands before it gone
NoLoad ==
    /\ xml_dirpath' = <<>>
    /\ recursive' = FALSE
    /\ dir' = <<>>
    /\ sorted_files' = <<>>
    /\ opened' = <<>>
    /\ force_update' = FALSE
    /\ counter' = 0
    /\ recfile' = <<>>
    /\ record' = <<>>
    /\ loaded_files' = {}
    /\ outcomes' = <<>>

NoExport ==
    /\ exported_files' = {}
    /\ export_log' = <<>>

NoRefresh == remote' = <<>>


(***************************************************************************)
(* Document Decoder: json.load, then etree.parse                           *)
(***************************************************************************)
\* json.load(fh): the parsed object, or the exception class raised
json_load(doc) ==
    IF ~doc.readable THEN [exc |-> "OSError", value |-> Junk]
    ELSE IF Len(doc.raw) = 1 /\ doc.raw[1].k = "json"
    THEN [exc |-> "none", value |-> doc.raw[1]]
    ELSE [exc |-> "JSONDecodeError", value |-> Junk]

\* etree.parse(recfile, context.parser): an optional declaration line, then
\* exactly one well-formed body
etree_parse(doc) ==
    IF ~doc.readable THEN [exc |-> "OSError", value |-> Junk]
    ELSE IF Len(doc.raw) = 1 /\ doc.raw[1].k = "xml"
    THEN [exc |-> "none", value |-> doc.raw[1]]
    ELSE IF Len(doc.raw) = 2 /\ doc.raw[1].k = "decl" /\ doc.raw[2].k = "xml"
    THEN [exc |-> "none", value |-> doc.raw[2]]
    ELSE [exc |-> "XMLSyntaxError", value |-> Junk]

\* the try statement of load_records: "ok" with metadata_record, "continue"
\* when a handler of the try statement logs and skips the file, "raise" when
\* the exception leaves load_records.  etree.parse runs inside the
\* JSONDecodeError handler, so the sibling handlers do not cover it.
ReadDocument(doc) ==
    LET j == json_load(doc) IN
    IF j.exc = "none" THEN [how |-> "ok", metadata_record |-> j.value]
    ELSE IF j.exc = "JSONDecodeError"
    THEN LET x == etree_parse(doc) IN
         IF x.exc = "none" THEN [how |-> "ok", metadata_record |-> x.value]
         ELSE [how |-> "raise", metadata_record |-> Junk]
    ELSE [how |-> "continue", metadata_record |-> Junk]

\* metadata.parse_record: the records of a decoded document, each keeping
\* the raw document and the content type of its serialization
parse_record(metadata_record, raw) ==
    IF ~metadata_record.mappable THEN [exc |-> "Exception", recs |-> <<>>]
    ELSE [exc |-> "none",
          recs |-> [i \in 1..Len(metadata_record.ids) |->
                      [identifier    |-> metadata_record.ids[i],
                       xml           |-> raw,
                       metadata_type |-> IF metadata_record.k = "json"
                                         THEN "application/json"
                                         ELSE "application/xml",
                       schema        |-> CswSchema]]]

(***************************************************************************)
(* Catalog Repository                                                      *)
(***************************************************************************)
\* the identifier column without its primary key
PrimaryKeyTaken_NoKey(rows, identifier) == FALSE

\* Column('identifier', Text, primary_key=True)
PrimaryKeyTaken(rows, identifier) ==
    \E r \in rows : r.identifier = identifier

Row(rec, source, insert_date) ==
    [identifier    |-> rec.identifier,
     mdsource      |-> source,
     insert_date   |-> insert_date,
     xml           |-> rec.xml,
     metadata_type |-> rec.metadata_type,
     schema        |-> rec.schema]

\* repository.insert(record, source, insert_date)
insert(rows, rec, source, insert_date, fault) ==
    IF fault THEN [res |-> "StorageError", rows |-> rows]
    ELSE IF PrimaryKeyTaken(rows, rec.identifier)
    THEN [res |-> "ConflictError", rows |-> rows]
    ELSE [res |-> "ok", rows |-> rows \cup {Row(rec, source, insert_date)}]

\* repository.update(record): replaces the mutable fields of the stored row
update(rows, rec, fault) ==
    IF fault THEN [res |-> "StorageError", rows |-> rows]
    ELSE IF ~PrimaryKeyTaken(rows, rec.identifier)
    THEN [res |-> "NotFoundError", rows |-> rows]
    ELSE [res |-> "ok",
          rows |-> { IF r.identifier = rec.identifier
                     THEN Row(rec, r.mdsource, r.insert_date)
                     ELSE r : r \in rows }]

\* repository.delete(constraint): the rows left; an empty where clause
\* matches every row
delete(rows, where) ==
    IF where = "" THEN {}
    ELSE IF where = "mdsource = 'local'"
    THEN { r \in rows : r.mdsource # "local" }
    ELSE rows

\* the rows matching the constraint {'where': "mdsource != 'local'"}
query_nonlocal(rows) == { r \in rows : r.mdsource # "local" }

\* the maxrecords a query returns when the caller passes none
DefaultMaxRecords == 10

\* the order in which the database returns rows
NextRow(rows) == CHOOSE r \in rows : TRUE

RECURSIVE FirstRows(_, _)
FirstRows(rows, n) ==
    IF n = 0 \/ rows = {} THEN {}
    ELSE {NextRow(rows)} \cup FirstRows(rows \ {NextRow(rows)}, n - 1)

\* repository.query(constraint, maxrecords): the number of matching rows
\* and the first maxrecords of them
query(matching, maxrecords) ==
    [count   |-> Cardinality(matching),
     records |-> FirstRows(matching, maxrecords)]

(***************************************************************************)
(* load_records                                                            *)
(***************************************************************************)
isfile(path) == path \in DOMAIN FileSystem
isdir(path)  == path \in Directories

\* the index of the last separator of a path
LastSlash(path) ==
    CHOOSE i \in DOMAIN path :
        path[i] = "/" /\ \A j \in DOMAIN path : path[j] = "/" => j <= i

dirname(path)  == SubSeq(path, 1, LastSlash(path) - 1)
basename(path) == SubSeq(path, LastSlash(path) + 1, Len(path))

\* mfile.endswith('.xml')
endswith(name, suffix) ==
    /\ Len(name) >= Len(suffix)
    /\ SubSeq(name, Len(name) - Len(suffix) + 1, Len(name)) = suffix

\* the pattern '*' + suffix of glob: a name that starts with a dot matches
\* only a pattern that starts with one
fnmatch(name, suffix) == endswith(name, suffix) /\ Head(name) # "."

\* glob(os.path.join(d, '*' + suffix)): the entries of d, files and
\* directories alike, whose name matches
glob(d, suffix) ==
    { p \in Entries : dirname(p) = d /\ fnmatch(basename(p), suffix) }

\* path lies below top, at any depth
IsUnder(path, top) ==
    /\ Len(path) > Len(top) + 1
    /\ SubSeq(path, 1, Len(top)) = top
    /\ path[Len(top) + 1] = "/"

\* the join(root, mfile) of os.walk(top) over the files of every directory
\* of the tree; nothing when top is not a directory
walk(top) ==
    IF isdir(top) THEN { p \in DOMAIN FileSystem : IsUnder(p, top) } ELSE {}

\* the entries load_records appends to file_list
file_list(path, rec) ==
    IF isfile(path) THEN {path}
    ELSE IF rec THEN { p \in walk(path) : endswith(basename(p), DotXml) }
    ELSE glob(path, DotXml) \cup glob(path, DotJson)

\* file_list for every path and flag, computed once
Scanned ==
    [path \in Entries \cup {Missing}, rec \in BOOLEAN |-> file_list(path, rec)]

\* the orders in which the file system can hand the entries over
Orders(S) ==
    { o \in [1..Cardinality(S) -> S] :
        \A i, j \in 1..Cardinality(S) : o[i] = o[j] => i = j }

\* open(recfile): a directory cannot be opened for reading
Open(path) == IF isfile(path) THEN FileSystem[path] ELSE Unreadable

\* the characters of the paths in ascending order of code point
CodePoints ==
    << ".", "/", "1", "2", "3", "4", "5", "6", "7", "8",
       "a", "c", "d", "e", "f", "h", "j", "l", "m", "n", "o", "s", "t", "x" >>

ord(c) == CHOOSE i \in DOMAIN CodePoints : CodePoints[i] = c

\* str.__lt__: the first differing character decides, a proper prefix is
\* smaller
RECURSIVE LexLess(_, _)
LexLess(a, b) ==
    IF b = <<>> THEN FALSE
    ELSE IF a = <<>> THEN TRUE
    ELSE IF Head(a) = Head(b) THEN LexLess(Tail(a), Tail(b))
    ELSE ord(Head(a)) < ord(Head(b))

\* the sorted list with one more path put in its place
RECURSIVE Insort(_, _)
Insort(list, path) ==
    IF list = <<>> THEN <<path>>
    ELSE IF LexLess(path, Head(list)) THEN <<path>> \o list
    ELSE <<Head(list)>> \o Insort(Tail(list), path)

\* the loop iterates file_list in the order it was filled
sorted_Discovery(list) == list

\* sorted(file_list)
RECURSIVE sorted(_)
sorted(list) ==
    IF list = <<>> THEN <<>>
    ELSE Insort(sorted(Tail(list)), Head(list))

\* what sorted(file_list) can be, over the orders in which file_list can
\* have been filled, for every path and flag, computed once
SortedLists ==
    [path \in Entries \cup {Missing}, rec \in BOOLEAN |->
        { sorted(discovered) : discovered \in Orders(Scanned[path, rec]) }]

\* a failed insert falls back to update whatever force_update is
InsertOrUpdate_Upsert(rows, rec, force, today_and_now, insFault, updFault) ==
    LET ins == insert(rows, rec, LocalSource, today_and_now, insFault) IN
    IF ins.res = "ok"
    THEN [rows |-> ins.rows, ins |-> "ok", upd |-> "none",
          add |-> TRUE, raised |-> FALSE]
    ELSE LET u == update(rows, rec, updFault) IN
         [rows |-> u.rows, ins |-> ins.res, upd |-> u.res,
          add |-> (u.res = "ok"), raised |-> (u.res # "ok")]

\* a forced overwrite replaces the stored row by a fresh insert
InsertOrUpdate_Reinsert(rows, rec, force, today_and_now, insFault, updFault) ==
    LET ins == insert(rows, rec, LocalSource, today_and_now, insFault) IN
    IF ins.res = "ok"
    THEN [rows |-> ins.rows, ins |-> "ok", upd |-> "none",
          add |-> TRUE, raised |-> FALSE]
    ELSE IF force
    THEN LET u == update(rows, rec, updFault) IN
         [rows |-> IF u.res = "ok"
                   THEN { r \in rows : r.identifier # rec.identifier }
                        \cup {Row(rec, LocalSource, today_and_now)}
                   ELSE rows,
          ins |-> ins.res, upd |-> u.res,
          add |-> (u.res = "ok"), raised |-> (u.res # "ok")]
    ELSE [rows |-> rows, ins |-> ins.res, upd |-> "none",
          add |-> FALSE, raised |-> FALSE]

\* the body of "for rec in record": what the repository calls returned,
\* whether recfile is added to loaded_files, whether an exception escapes
InsertOrUpdate(rows, rec, force, today_and_now, insFault, updFault) ==
    LET ins == insert(rows, rec, LocalSource, today_and_now, insFault) IN
    IF ins.res = "ok"
    THEN [rows |-> ins.rows, ins |-> "ok", upd |-> "none",
          add |-> TRUE, raised |-> FALSE]
    ELSE IF force
    THEN LET u == update(rows, rec, updFault) IN
         [rows |-> u.rows, ins |-> ins.res, upd |-> u.res,
          add |-> (u.res = "ok"), raised |-> (u.res # "ok")]
    ELSE [rows |-> rows, ins |-> ins.res, upd |-> "none",
          add |-> FALSE, raised |-> FALSE]

Ended(op, status, value) == [op |-> op, status |-> status, value |-> value]

\* file_list is filled in whatever order the file system hands the entries
\* over; the loop iterates sorted(file_list)
StartLoad(path, rec, f) ==
    /\ pc = "idle"
    /\ ops < MaxOps
    /\ pc' = "load"
    /\ ops' = ops + 1
    /\ result' = Ended("load", "running", {})
    /\ xml_dirpath' = path
    /\ recursive' = rec
    /\ dir' = [p \in Scanned[path, rec] |-> Open(p)]
    /\ sorted_files' \in SortedLists[path, rec]
    /\ opened' = <<>>
    /\ force_update' = f
    /\ counter' = 0
    /\ recfile' = <<>>
    /\ record' = <<>>
    /\ loaded_files' = {}
    /\ outcomes' = [p \in Scanned[path, rec] |-> <<>>]
    /\ cat0' = catalog
    /\ todo' = {}
    /\ NoExport
    /\ NoRefresh
    /\ UNCHANGED <<catalog, outdirExists, outdir>>

\* one iteration of "for recfile in sorted(file_list)" up to the record loop
LoadFile ==
    /\ pc = "load"
    /\ record = <<>>
    /\ counter < Len(sorted_files)
    /\ LET p   == sorted_files[counter + 1]
           doc == ReadDocument(dir[p])
           ext == parse_record(doc.metadata_record, dir[p].raw)
       IN /\ counter' = counter + 1
          /\ recfile' = p
          /\ opened' = Append(opened, p)
          /\ IF doc.how = "raise"
             THEN /\ pc' = "idle"
                  /\ result' = Ended("load", "raised", {})
                  /\ record' = <<>>
             ELSE /\ UNCHANGED <<pc, result>>
                  /\ record' = IF doc.how = "ok" /\ ext.exc = "none"
                               THEN ext.recs ELSE <<>>
    /\ UNCHANGED <<ops, catalog, scanVars, force_update, loaded_files,
                   outcomes, cat0, exportVars, todo, remote>>

\* one iteration of "for rec in record"
LoadRecord(insFault, updFault) ==
    /\ pc = "load"
    /\ record # <<>>
    /\ LET r == InsertOrUpdate(catalog, Head(record), force_update, ops,
                               insFault, updFault)
       IN /\ catalog' = r.rows
          /\ outcomes' = [outcomes EXCEPT ![recfile] =
                            Append(@, [identifier |-> Head(record).identifier,
                                       ins |-> r.ins, upd |-> r.upd])]
          /\ loaded_files' = IF r.add THEN loaded_files \cup {recfile}
                             ELSE loaded_files
          /\ IF r.raised
             THEN /\ pc' = "idle"
                  /\ result' = Ended("load", "raised", {})
             ELSE UNCHANGED <<pc, result>>
    /\ record' = Tail(record)
    /\ UNCHANGED <<ops, scanVars, opened, force_update, counter, recfile,
                   cat0, exportVars, todo, remote>>

\* return tuple(loaded_files)
LoadReturn ==
    /\ pc = "load"
    /\ record = <<>>
    /\ counter = Len(sorted_files)
    /\ pc' = "idle"
    /\ result' = Ended("load", "returned", loaded_files)
    /\ UNCHANGED <<ops, catalog, loadVars, cat0, exportVars, todo, remote>>


\* process termination while a command runs
Kill ==
    /\ pc # "idle"
    /\ pc' = "idle"
    /\ result' = Ended(result.op, "killed", {})
    /\ UNCHANGED <<ops, catalog, loadVars, cat0, exportVars, todo, remote>>

(***************************************************************************)
(* export_records                                                          *)
(***************************************************************************)
\* util.secure_filename: path separators become blanks, blank-separated
\* words are joined with "_", characters outside [A-Za-z0-9_.-] are dropped
\* and leading and trailing "." and "_" are stripped
SafeChars == {"a", "b", "h", ".", "_", "-"}

ReplaceSeparators(s) ==
    [i \in DOMAIN s |-> IF s[i] = "/" THEN " " ELSE s[i]]

RECURSIVE JoinWords(_, _)
JoinWords(s, pendingBlank) ==
    IF s = <<>> THEN <<>>
    ELSE IF Head(s) = " " THEN JoinWords(Tail(s), TRUE)
    ELSE (IF pendingBlank THEN <<"_">> ELSE <<>>)
         \o <<Head(s)>> \o JoinWords(Tail(s), FALSE)

RECURSIVE LStripBlanks(_)
LStripBlanks(s) ==
    IF s # <<>> /\ Head(s) = " " THEN LStripBlanks(Tail(s)) ELSE s

RECURSIVE Strip(_)
Strip(s) ==
    IF s = <<>> THEN s
    ELSE IF Head(s) \in {".", "_"} THEN Strip(Tail(s))
    ELSE IF s[Len(s)] \in {".", "_"} THEN Strip(SubSeq(s, 1, Len(s) - 1))
    ELSE s

secure_filename(identifier) ==
    Strip(SelectSeq(JoinWords(LStripBlanks(ReplaceSeparators(identifier)),
                              FALSE),
                    LAMBDA c : c \in SafeChars))

\* if 'json' in metadata_type
Extension(metadata_type) ==
    IF metadata_type = "application/json" THEN "json" ELSE "xml"

\* the identifier is used as the file name as it is stored
Filename_Raw(row) == <<row.identifier, Extension(row.metadata_type)>>

\* os.path.join(dirpath, '%s.%s' % (identifier, extension))
Filename(row) ==
    <<secure_filename(row.identifier), Extension(row.metadata_type)>>

\* dirpath = os.path.abspath(xml_dirpath), as its components below the root
dirpath == <<<<"s", "r", "v">>, <<"e", "x", "p">>>>

\* '%s.%s' % (identifier, extension), as a string of characters
Basename(name) == name[1] \o <<".", name[2]>>

\* the components of a path string, split at the separator
RECURSIVE SplitPath(_, _)
SplitPath(s, cur) ==
    IF s = <<>> THEN <<cur>>
    ELSE IF Head(s) = "/" THEN <<cur>> \o SplitPath(Tail(s), <<>>)
    ELSE SplitPath(Tail(s), Append(cur, Head(s)))

\* the location a list of components names from a starting location:
\* empty and "." components stay, ".." goes up and stops at the root
RECURSIVE Walk(_, _)
Walk(comps, at) ==
    IF comps = <<>> THEN at
    ELSE IF Head(comps) = <<>> \/ Head(comps) = <<".">>
    THEN Walk(Tail(comps), at)
    ELSE IF Head(comps) = <<".", ".">>
    THEN Walk(Tail(comps),
              IF at = <<>> THEN at ELSE SubSeq(at, 1, Len(at) - 1))
    ELSE Walk(Tail(comps), Append(at, Head(comps)))

\* the location open(os.path.join(dir, base)) touches: an absolute second
\* argument makes join drop the first
join(d, base) ==
    IF base # <<>> /\ Head(base) = "/"
    THEN Walk(SplitPath(base, <<>>), <<>>)
    ELSE Walk(SplitPath(base, <<>>), d)

\* what the with-block writes when nothing fails
Written(row) == <<Decl>> \o row.xml

\* the directory after the try block: how is "ok", "open" (open() raised,
\* nothing touched) or "write" (the file was created and a write raised)
AfterTry(files, row, how) ==
    IF how = "ok" THEN (Filename(row) :> Written(row)) @@ files
    ELSE IF how = "write" THEN (Filename(row) :> <<Decl>>) @@ files
    ELSE files

Remove(files, name) == [n \in (DOMAIN files) \ {name} |-> files[n]]

\* the except clause: if os.path.exists(filename): os.remove(filename).
\* os.remove runs inside the handler: when it raises (a path that could not
\* be opened for writing cannot be unlinked either) the exception leaves
\* export_records.
AfterExcept(files, name, removeOk) ==
    IF name \notin DOMAIN files THEN [files |-> files, raised |-> FALSE]
    ELSE IF removeOk THEN [files |-> Remove(files, name), raised |-> FALSE]
    ELSE [files |-> files, raised |-> TRUE]

\* one iteration of "for record in records.all()"
ExportOne(files, row, how, removeOk) ==
    IF how = "ok"
    THEN [files |-> AfterTry(files, row, how), add |-> TRUE, raised |-> FALSE]
    ELSE LET e == AfterExcept(AfterTry(files, row, how), Filename(row),
                              removeOk \/ how = "write")
         IN [files |-> e.files, add |-> FALSE, raised |-> e.raised]

StartExport(makedirsOk) ==
    /\ pc = "idle"
    /\ ops < MaxOps
    /\ ops' = ops + 1
    /\ cat0' = catalog
    /\ NoLoad
    /\ NoExport
    /\ NoRefresh
    /\ IF outdirExists \/ makedirsOk
       THEN /\ pc' = "export"
            /\ result' = Ended("export", "running", {})
            /\ outdirExists' = TRUE
            /\ todo' = catalog
       ELSE /\ pc' = "idle"
            /\ result' = Ended("export", "raised", {})
            /\ todo' = {}
            /\ UNCHANGED outdirExists
    /\ UNCHANGED <<catalog, outdir>>

ExportRecord(row, how, removeOk) ==
    /\ pc = "export"
    /\ row \in todo
    /\ todo' = todo \ {row}
    /\ LET e == ExportOne(outdir, row, how, removeOk)
       IN /\ outdir' = e.files
          /\ exported_files' = IF e.add
                               THEN exported_files \cup {Filename(row)}
                               ELSE exported_files
          /\ export_log' = (row :> how) @@ export_log
          /\ IF e.raised
             THEN /\ pc' = "idle"
                  /\ result' = Ended("export", "raised", {})
             ELSE UNCHANGED <<pc, result>>
    /\ UNCHANGED <<ops, catalog, loadVars, cat0, outdirExists, remote>>

\* return tuple(exported_files)
ExportReturn ==
    /\ pc = "export"
    /\ todo = {}
    /\ pc' = "idle"
    /\ result' = Ended("export", "returned", exported_files)
    /\ UNCHANGED <<ops, catalog, loadVars, cat0, exportVars, todo, remote>>

(***************************************************************************)
(* refresh_harvested_records                                               *)
(***************************************************************************)
Connect(ok) ==
    [call |-> "CatalogueServiceWeb", source |-> "", schema |-> "", ok |-> ok]

\* the legacy ISO schema identifier is rewritten before it is sent
HarvestCall(row, ok) ==
    [call   |-> "harvest",
     ok     |-> ok,
     source |-> row.mdsource,
     schema |-> IF row.schema = GmdLegacy THEN GmdCanonical ELSE row.schema]

\* the test reads "count >= 0"
HasHarvested_OrNone(count) == count >= 0

\* if int(count) > 0
HasHarvested(count) == count > 0

StartRefresh(connectOk) ==
    /\ pc = "idle"
    /\ ops < MaxOps
    /\ ops' = ops + 1
    /\ cat0' = catalog
    /\ LET q       == query(query_nonlocal(catalog), DefaultMaxRecords)
           records == q.records
           count   == q.count
       IN IF HasHarvested(count)
          THEN /\ remote' = <<Connect(connectOk)>>
               /\ IF connectOk
                  THEN /\ pc' = "refresh"
                       /\ result' = Ended("refresh", "running", {})
                       /\ todo' = records
                  ELSE /\ pc' = "idle"
                       /\ result' = Ended("refresh", "raised", {})
                       /\ todo' = {}
          ELSE /\ remote' = <<>>
               /\ pc' = "idle"
               /\ result' = Ended("refresh", "returned", {})
               /\ todo' = {}
    /\ NoLoad
    /\ NoExport
    /\ UNCHANGED <<catalog, outdirExists, outdir>>

\* one iteration of "for rec in records"; a failing harvest is logged.
\* What the endpoint does with the request happens in another process.
HarvestRecord(row, harvestOk) ==
    /\ pc = "refresh"
    /\ row \in todo
    /\ row = NextRow(todo)
    /\ todo' = todo \ {row}
    /\ remote' = Append(remote, HarvestCall(row, harvestOk))
    /\ UNCHANGED <<pc, ops, result, catalog, loadVars, cat0, exportVars>>

RefreshReturn ==
    /\ pc = "refresh"
    /\ todo = {}
    /\ pc' = "idle"
    /\ result' = Ended("refresh", "returned", {})
    /\ UNCHANGED <<ops, catalog, loadVars, cat0, exportVars, todo, remote>>

(***************************************************************************)
(* delete_records                                                          *)
(***************************************************************************)
\* the constraint selects the local records only
DeleteWhere_Local == "mdsource = 'local'"

\* constraint={'where': '', 'values': []}
DeleteWhere == ""

\* a delete the store rejects raises out of delete_records
DeleteRecords(fault) ==
    /\ pc = "idle"
    /\ ops < MaxOps
    /\ ops' = ops + 1
    /\ cat0' = catalog
    /\ IF fault
       THEN /\ UNCHANGED catalog
            /\ result' = Ended("delete", "raised", {})
       ELSE /\ catalog' = delete(catalog, DeleteWhere)
            /\ result' = Ended("delete", "returned", {})
    /\ todo' = {}
    /\ NoLoad
    /\ NoExport
    /\ NoRefresh
    /\ UNCHANGED <<pc, outdirExists, outdir>>

(***************************************************************************)
(* The catalog the commands start from: empty, or holding records that     *)
(* were harvested or loaded before.                                        *)
(***************************************************************************)
Harvested ==
    [identifier    |-> IdH,
     mdsource      |-> RemoteSource,
     insert_date   |-> 0,
     xml           |-> <<Xml(<<IdH>>, "v1")>>,
     metadata_type |-> "application/xml",
     schema        |-> GmdLegacy]

LoadedBefore ==
    [identifier    |-> IdA,
     mdsource      |-> LocalSource,
     insert_date   |-> 0,
     xml           |-> <<Xml(<<IdA>>, "v0")>>,
     metadata_type |-> "application/xml",
     schema        |-> CswSchema]

InitCatalogs == { {}, {Harvested}, {Harvested, LoadedBefore} }

Init ==
    /\ pc = "idle"
    /\ ops = 0
    /\ result = Ended("none", "none", {})
    /\ catalog \in InitCatalogs
    /\ xml_dirpath = <<>>
    /\ recursive = FALSE
    /\ dir = <<>>
    /\ sorted_files = <<>>
    /\ opened = <<>>
    /\ force_update = FALSE
    /\ counter = 0
    /\ recfile = <<>>
    /\ record = <<>>
    /\ loaded_files = {}
    /\ outcomes = <<>>
    /\ cat0 = catalog
    /\ outdirExists \in BOOLEAN
    /\ outdir = <<>>
    /\ todo = {}
    /\ exported_files = {}
    /\ export_log = <<>>
    /\ remote = <<>>

Next ==
    \/ \E path \in BatchDirs, f \in BOOLEAN : StartLoad(path, FALSE, f)
    \/ LoadFile
    \/ \E insFault \in BOOLEAN, updFault \in BOOLEAN :
          LoadRecord(insFault, updFault)
    \/ LoadReturn
    \/ \E makedirsOk \in BOOLEAN : StartExport(makedirsOk)
    \/ \E row \in todo, how \in {"ok", "open", "write"},
          removeOk \in BOOLEAN : ExportRecord(row, how, removeOk)
    \/ ExportReturn
    \/ \E connectOk \in BOOLEAN : StartRefresh(connectOk)
    \/ \E row \in todo, harvestOk \in BOOLEAN : HarvestRecord(row, harvestOk)
    \/ RefreshReturn
    \/ \E fault \in BOOLEAN : DeleteRecords(fault)
    \/ Kill

Spec == Init /\ [][Next]_vars

(***************************************************************************)
(* A catalog with a backlog of harvested records, and the refresh command  *)
(* alone running against it.                                               *)
(***************************************************************************)
HarvestedNo(i) ==
    [identifier    |-> [j \in 1..i |-> "h"],
     mdsource      |-> RemoteSource,
     insert_date   |-> 0,
     xml           |-> <<Xml(<<IdH>>, "v1")>>,
     metadata_type |-> "application/xml",
     schema        |-> GmdLegacy]

Backlog ==
    { HarvestedNo(i) : i \in 1..(DefaultMaxRecords + 1) } \cup {LoadedBefore}

HarvestInit ==
    /\ pc = "idle"
    /\ ops = 0
    /\ result = Ended("none", "none", {})
    /\ catalog \in { Backlog, {Harvested, LoadedBefore} }
    /\ xml_dirpath = <<>>
    /\ recursive = FALSE
    /\ dir = <<>>
    /\ sorted_files = <<>>
    /\ opened = <<>>
    /\ force_update = FALSE
    /\ counter = 0
    /\ recfile = <<>>
    /\ record = <<>>
    /\ loaded_files = {}
    /\ outcomes = <<>>
    /\ cat0 = catalog
    /\ outdirExists = TRUE
    /\ outdir = <<>>
    /\ todo = {}
    /\ exported_files = {}
    /\ export_log = <<>>
    /\ remote = <<>>

HarvestNext ==
    \/ \E connectOk \in BOOLEAN : StartRefresh(connectOk)
    \/ \E row \in todo, harvestOk \in BOOLEAN : HarvestRecord(row, harvestOk)
    \/ RefreshReturn

SpecHarvest == HarvestInit /\ [][HarvestNext]_vars


(***************************************************************************)
(* The commands on a catalog that starts empty.  The harvest loop follows   *)
(* only a refresh whose query found a record, so it is not part of this     *)
(* specification: a refresh that finds one stops at pc = "refresh".         *)
(***************************************************************************)
EmptyInit == Init /\ catalog = {}

EmptyNext ==
    \/ \E path \in BatchDirs, f \in BOOLEAN : StartLoad(path, FALSE, f)
    \/ LoadFile
    \/ \E insFault \in BOOLEAN, updFault \in BOOLEAN :
          LoadRecord(insFault, updFault)
    \/ LoadReturn
    \/ \E makedirsOk \in BOOLEAN : StartExport(makedirsOk)
    \/ \E row \in todo, how \in {"ok", "open", "write"},
          removeOk \in BOOLEAN : ExportRecord(row, how, removeOk)
    \/ ExportReturn
    \/ \E connectOk \in BOOLEAN : StartRefresh(connectOk)
    \/ \E fault \in BOOLEAN : DeleteRecords(fault)
    \/ Kill

SpecEmpty == EmptyInit /\ [][EmptyNext]_vars

(***************************************************************************)
(* Export of a catalog that holds one record with a hostile identifier:     *)
(* any string of up to MaxIdLen characters, among them the separator, the   *)
(* dot and a character no file name may keep.                               *)
(***************************************************************************)
HostileChars == {"a", ".", "/", "_", "\\"}

HostileIds == UNION { [1..n -> HostileChars] : n \in 1..MaxIdLen }

Hostile(identifier, metadata_type) ==
    [identifier    |-> identifier,
     mdsource      |-> LocalSource,
     insert_date   |-> 0,
     xml           |-> <<Xml(<<identifier>>, "v1")>>,
     metadata_type |-> metadata_type,
     schema        |-> CswSchema]

SanitizeInit ==
    /\ pc = "idle"
    /\ ops = 0
    /\ result = Ended("none", "none", {})
    /\ \E identifier \in HostileIds,
          metadata_type \in {"application/xml", "application/json"} :
          catalog = {Hostile(identifier, metadata_type)}
    /\ xml_dirpath = <<>>
    /\ recursive = FALSE
    /\ dir = <<>>
    /\ sorted_files = <<>>
    /\ opened = <<>>
    /\ force_update = FALSE
    /\ counter = 0
    /\ recfile = <<>>
    /\ record = <<>>
    /\ loaded_files = {}
    /\ outcomes = <<>>
    /\ cat0 = catalog
    /\ outdirExists = TRUE
    /\ outdir = <<>>
    /\ todo = {}
    /\ exported_files = {}
    /\ export_log = <<>>
    /\ remote = <<>>

SanitizeNext ==
    \/ \E makedirsOk \in BOOLEAN : StartExport(makedirsOk)
    \/ \E row \in todo, how \in {"ok", "open", "write"},
          removeOk \in BOOLEAN : ExportRecord(row, how, removeOk)
    \/ ExportReturn

SpecSanitize == SanitizeInit /\ [][SanitizeNext]_vars

(***************************************************************************)
(* load_records alone, pointed at the tree /t, its subdirectories, single   *)
(* files and a missing path, in both scanning modes.  A command that has    *)
(* started keeps running: its steps are weakly fair.                        *)
(***************************************************************************)
ScanInit == Init /\ catalog = {} /\ outdirExists

ScanNext ==
    \/ \E path \in ScanPaths, rec \in BOOLEAN, f \in BOOLEAN :
          StartLoad(path, rec, f)
    \/ LoadFile
    \/ \E insFault \in BOOLEAN, updFault \in BOOLEAN :
          LoadRecord(insFault, updFault)
    \/ LoadReturn

SpecScan == ScanInit /\ [][ScanNext]_vars

SpecScanFair ==
    /\ SpecScan
    /\ WF_vars(LoadFile)
    /\ WF_vars(\E insFault \in BOOLEAN, updFault \in BOOLEAN :
                  LoadRecord(insFault, updFault))
    /\ WF_vars(LoadReturn)

(***************************************************************************)
(* Properties                                                              *)
(***************************************************************************)
Ids(rows) == { r.identifier : r \in rows }

\* neither valid JSON nor well-formed XML
Malformed(doc) ==
    /\ doc.readable
    /\ json_load(doc).exc # "none"
    /\ etree_parse(doc).exc # "none"

\* decodes as JSON or XML and maps to records
Extracts(doc) ==
    /\ doc.readable
    /\ \/ json_load(doc).exc = "none" /\ json_load(doc).value.mappable
       \/ etree_parse(doc).exc = "none" /\ etree_parse(doc).value.mappable

\* exactly one file of the directory is malformed, the others decode and
\* extract
OneMalformed(d) ==
    \E p \in DOMAIN d :
        /\ Malformed(d[p])
        /\ \A q \in (DOMAIN d) \ {p} : Extracts(d[q])

\* every repository call of the run so far was an insert that succeeded
InsertsClean ==
    \A p \in DOMAIN outcomes : \A i \in DOMAIN outcomes[p] :
        outcomes[p][i].ins = "ok"

\* C1 (batch isolation on decode failure): a load of a directory with
\* exactly one malformed file, whose other files decode, extract and insert
\* cleanly, does not raise, inserts nothing from the malformed file, and
\* returns exactly the paths of the other files.
C1_BatchIsolation ==
    (result.op = "load" /\ OneMalformed(dir) /\ InsertsClean) =>
        /\ result.status # "raised"
        /\ \A p \in DOMAIN dir : Malformed(dir[p]) => outcomes[p] = <<>>
        /\ result.status = "returned" =>
              result.value = { p \in DOMAIN dir : ~Malformed(dir[p]) }

\* the record was inserted or updated
Stored(o) == o.ins = "ok" \/ o.upd = "ok"

\* C2 (success-set membership): when load_records returns, a file from
\* which records were extracted is in the returned set if and only if every
\* one of its records was inserted or updated.
C2_SuccessSetMembership ==
    (result.op = "load" /\ result.status = "returned") =>
        \A p \in DOMAIN dir :
            outcomes[p] # <<>> =>
                (p \in result.value <=>
                    \A i \in DOMAIN outcomes[p] : Stored(outcomes[p][i]))

\* C3 (non-conflict storage failure): after an insert that failed for a
\* reason other than a duplicate identifier, load_records does not call
\* repository.update, does not raise, and does not add a file to the
\* success set on account of that record.
C3_StorageFailureAbandonsRecord ==
    result.op = "load" =>
        \A p \in DOMAIN outcomes : \A i \in DOMAIN outcomes[p] :
            outcomes[p][i].ins = "StorageError" =>
                /\ outcomes[p][i].upd = "none"
                /\ (Len(outcomes[p]) = 1 /\ recfile = p =>
                        /\ p \notin loaded_files
                        /\ result.status # "raised")


\* the records load_records extracts from a file
RecordsOf(doc) ==
    LET r == ReadDocument(doc) IN
    IF r.how = "ok" THEN parse_record(r.metadata_record, doc.raw).recs
    ELSE <<>>

\* every record of every file of the directory has its identifier stored
AllStored(d, rows) ==
    \A p \in DOMAIN d : \A i \in DOMAIN RecordsOf(d[p]) :
        RecordsOf(d[p])[i].identifier \in Ids(rows)

\* a load of the directory can return: no file makes the decoder raise
Decodable(d) == \A p \in DOMAIN d : ReadDocument(d[p]).how # "raise"

\* C4 (idempotence of load): a load with force_update false over a
\* directory whose records are all stored already inserts and updates
\* nothing, leaves the catalog exactly as it was, does not raise, and
\* returns an empty success set.
C4_IdempotentReload ==
    (result.op = "load" /\ ~force_update /\ Decodable(dir)
        /\ AllStored(dir, cat0)) =>
        /\ catalog = cat0
        /\ loaded_files = {}
        /\ result.status # "raised"
        /\ result.value = {}
        /\ \A p \in DOMAIN outcomes : \A i \in DOMAIN outcomes[p] :
              outcomes[p][i].ins # "ok" /\ outcomes[p][i].upd = "none"

\* a second run returned, over files the first run (at time 1) stored as
\* they are, every record of them reported as a conflict
C4_Witness ==
    /\ result.op = "load" /\ result.status = "returned"
    /\ ops = 2 /\ ~force_update
    /\ \E p \in DOMAIN dir : RecordsOf(dir[p]) # <<>>
    /\ \A p \in DOMAIN dir : \A i \in DOMAIN RecordsOf(dir[p]) :
          /\ \E row \in cat0 :
                /\ row.identifier = RecordsOf(dir[p])[i].identifier
                /\ row.xml = dir[p].raw
                /\ row.insert_date = 1
          /\ Len(outcomes[p]) = Len(RecordsOf(dir[p]))
          /\ outcomes[p][i].ins = "ConflictError"

\* C5 (identifier uniqueness): in every state, between any two record-level
\* operations of any command, the catalog holds at most one row per
\* identifier.
C5_IdentifierUnique ==
    \A r1 \in catalog, r2 \in catalog :
        r1.identifier = r2.identifier => r1 = r2

\* in the middle of a file, after an insert hit a stored identifier
C5_Witness ==
    /\ pc = "load" /\ record # <<>>
    /\ Cardinality(catalog) >= 2
    /\ \E i \in DOMAIN outcomes[recfile] :
          outcomes[recfile][i].ins = "ConflictError"

\* the repository calls made for the record processed last
LastCalls == outcomes[recfile][Len(outcomes[recfile])]

Overwritten ==
    /\ result.op = "load"
    /\ recfile \in DOMAIN outcomes
    /\ outcomes[recfile] # <<>>
    /\ LastCalls.upd = "ok"

\* C6 (overwrite correctness): after load_records with force_update has
\* updated a stored record, the stored row has the content of the new
\* document and still the insert date (and source) it had before.
C6_OverwriteKeepsInsertDate ==
    Overwritten =>
        \E row \in catalog :
            /\ row.identifier = LastCalls.identifier
            /\ row.xml = dir[recfile].raw
            /\ \A old \in cat0 :
                  old.identifier = row.identifier =>
                      /\ row.insert_date = old.insert_date
                      /\ row.mdsource = old.mdsource
            /\ (LastCalls.identifier \notin Ids(cat0)) =>
                  row.insert_date = ops

\* the overwritten row was stored at an earlier time with another content
C6_Witness ==
    /\ Overwritten
    /\ force_update
    /\ LastCalls.ins = "ConflictError"
    /\ \E old \in cat0, row \in catalog :
          /\ old.identifier = LastCalls.identifier
          /\ row.identifier = old.identifier
          /\ old.xml # dir[recfile].raw
          /\ row.xml = dir[recfile].raw
          /\ old.insert_date < ops
          /\ row.insert_date = old.insert_date


\* C7 (export result exactness): when export_records returns, a path is in
\* the returned collection if and only if the file exists in the export
\* directory fully written from a record of the catalog.
C7_ExportedExactly ==
    (result.op = "export" /\ result.status = "returned") =>
        result.value =
            { n \in DOMAIN outdir :
                \E row \in cat0 : Filename(row) = n /\ outdir[n] = Written(row) }

\* C8 (export failure isolation): a failed write never makes export_records
\* raise, leaves no file at its path unless another record wrote it, adds
\* no path to the result, and every record of the catalog is still taken.
C8_WriteFailureIsolated ==
    result.op = "export" =>
        /\ export_log # <<>> => result.status # "raised"
        /\ exported_files =
              { Filename(row) :
                  row \in { r \in DOMAIN export_log : export_log[r] = "ok" } }
        /\ \A row \in DOMAIN export_log :
              (/\ export_log[row] # "ok"
               /\ \A other \in DOMAIN export_log :
                     Filename(other) = Filename(row) => other = row)
                  => Filename(row) \notin DOMAIN outdir
        /\ result.status = "returned" => DOMAIN export_log = cat0

HasDeclaration(raw) == raw # <<>> /\ raw[1] = Decl

\* the content the export of a record is to have
Expected(row) ==
    IF row.metadata_type = "application/json" THEN row.xml
    ELSE IF HasDeclaration(row.xml) THEN row.xml
    ELSE <<Decl>> \o row.xml

\* C9 (export content): a written file has extension json for a JSON
\* record and xml otherwise; it holds the raw document verbatim, with one
\* declaration line prepended only for an XML record that has none; an
\* exported XML file decodes to the document that was stored.
C9_ExportContent ==
    result.op = "export" =>
        \A n \in exported_files \cap DOMAIN outdir :
            \E row \in DOMAIN export_log :
                /\ export_log[row] = "ok"
                /\ Filename(row) = n
                /\ n[2] = (IF row.metadata_type = "application/json"
                           THEN "json" ELSE "xml")
                /\ outdir[n] = Expected(row)
                /\ row.metadata_type = "application/xml" =>
                      etree_parse(File(outdir[n])) = etree_parse(File(row.xml))

\* C10 (harvest no-op): with no non-local record in the repository,
\* refresh_harvested_records makes no remote call (no connection to the
\* endpoint, no harvest request), leaves the repository unchanged and
\* returns.
C10_HarvestNoOp ==
    (result.op = "refresh" /\ query_nonlocal(cat0) = {}) =>
        /\ remote = <<>>
        /\ todo = {}
        /\ catalog = cat0
        /\ result.status = "returned"

\* a refresh returned on a catalog that holds local records only
C10_Witness ==
    /\ result.op = "refresh" /\ result.status = "returned"
    /\ cat0 # {}
    /\ query_nonlocal(cat0) = {}
    /\ remote = <<>>


\* the harvest requests of the running refresh
HarvestCalls == SelectSeq(remote, LAMBDA c : c.call = "harvest")

C13_DeleteAll ==
    /\ (result.op = "delete" /\ result.status = "returned") =>
          /\ catalog = {}
          /\ query(catalog, DefaultMaxRecords).count = 0
    /\ (result.op = "export" /\ cat0 = {}) =>
          /\ export_log = <<>>
          /\ exported_files = {}
          /\ todo = {}

\* delete_records returned on a catalog of local and harvested records
C13_Witness ==
    /\ result.op = "delete" /\ result.status = "returned"
    /\ \E r \in cat0 : r.mdsource = "local"
    /\ \E r \in cat0 : r.mdsource # "local"
    /\ catalog = {}


\* the outcomes of the run so far that hit a stored identifier
Conflicts ==
    { <<p, i>> \in (DOMAIN outcomes) \X (1..3) :
        i \in DOMAIN outcomes[p] /\ outcomes[p][i].ins = "ConflictError" }

\* the outcomes of the run so far that inserted the identifier
InsertsOf(identifier) ==
    { <<p, i>> \in (DOMAIN outcomes) \X (1..3) :
        /\ i \in DOMAIN outcomes[p]
        /\ outcomes[p][i].identifier = identifier
        /\ outcomes[p][i].ins = "ok" }

\* C15 (first write wins): throughout a load with force_update false,
\* update is never called; every row the catalog held at the start is still
\* there unchanged; every row added by the run is the one its first and only
\* successful insert stored (content of the inserting file, source local,
\* time of the run); the run raises only when the decoder raises on the
\* current file; and a file is in the success set only on account of a
\* record it inserted.
C15_FirstWriteWins ==
    (result.op = "load" /\ ~force_update) =>
        /\ \A p \in DOMAIN outcomes : \A i \in DOMAIN outcomes[p] :
              outcomes[p][i].upd = "none"
        /\ cat0 \subseteq catalog
        /\ \A row \in catalog \ cat0 :
              /\ Cardinality(InsertsOf(row.identifier)) = 1
              /\ \A pi \in InsertsOf(row.identifier) :
                    row.xml = dir[pi[1]].raw
              /\ row.mdsource = "local"
              /\ row.insert_date = ops
        /\ result.status = "raised" => ReadDocument(dir[recfile]).how = "raise"
        /\ \A p \in DOMAIN outcomes :
              p \in loaded_files <=>
                 \E i \in DOMAIN outcomes[p] : outcomes[p][i].ins = "ok"

\* a run without force_update returned after one record hit an identifier
\* stored before the run and another hit an identifier stored by an earlier
\* file of the run, both with different content, the conflicting files not
\* in the success set
C15_Witness ==
    /\ result.op = "load" /\ result.status = "returned" /\ ~force_update
    /\ \E pi \in Conflicts :
          /\ pi[1] \notin loaded_files
          /\ \E row \in cat0 :
                /\ row.identifier = outcomes[pi[1]][pi[2]].identifier
                /\ row.xml # dir[pi[1]].raw
    /\ \E pi \in Conflicts :
          /\ pi[1] \notin loaded_files
          /\ \E row \in catalog \ cat0 :
                /\ row.identifier = outcomes[pi[1]][pi[2]].identifier
                /\ row.xml # dir[pi[1]].raw


\* C17 (loaded records are local): on a catalog that starts empty, whatever
\* loads, exports and deletes have run, every stored row has source "local",
\* no refresh enters its harvest loop, no connection is opened and no
\* harvest call is issued.
C17_LoadedAreLocal ==
    /\ \A row \in catalog : row.mdsource = "local"
    /\ query_nonlocal(catalog) = {}
    /\ pc # "refresh"
    /\ remote = <<>>
    /\ result.op = "refresh" => result.status = "returned" /\ todo = {}

\* a refresh returned on a catalog that a load, run with force_update on a
\* directory of two records, had filled
C17_Witness ==
    /\ result.op = "refresh" /\ result.status = "returned"
    /\ ops = 2
    /\ Cardinality(cat0) >= 2
    /\ catalog = cat0
    /\ \A row \in cat0 : row.insert_date = 1


\* the location is below the directory, and is not the directory itself
StrictlyInside(path, d) ==
    /\ Len(path) > Len(d)
    /\ SubSeq(path, 1, Len(d)) = d

\* every file name export_records has used so far: opened, written,
\* removed after a failure, or reported
NamesUsed ==
    { Filename(row) : row \in DOMAIN export_log }
        \cup DOMAIN outdir \cup exported_files

\* C14 (filename sanitization): whatever the identifier of the record,
\* every path export_records opens, writes, removes or reports, the
\* sanitized identifier plus extension joined with the export directory,
\* resolves to a location strictly inside the export directory, one level
\* below it.
C14_ExportStaysInside ==
    \A name \in NamesUsed :
        /\ StrictlyInside(join(dirpath, Basename(name)), dirpath)
        /\ Len(join(dirpath, Basename(name))) = Len(dirpath) + 1

\* the record "../a" has been exported, under a name that is not its
\* identifier
C14_Witness ==
    /\ result.op = "export" /\ result.status = "returned"
    /\ \E row \in catalog :
          /\ row.identifier = IdTrav
          /\ Filename(row) \in DOMAIN outdir
          /\ Filename(row) \in exported_files
          /\ Filename(row)[1] = <<"a">>
          /\ ~StrictlyInside(join(dirpath, Basename(Filename_Raw(row))),
                             dirpath)


\* the regular files directly inside d whose name matches *.xml or *.json
FlatFiles(d) ==
    { p \in DOMAIN FileSystem :
        /\ dirname(p) = d
        /\ \/ fnmatch(basename(p), DotXml)
           \/ fnmatch(basename(p), DotJson) }

\* the regular files at any depth below d whose name ends in .xml
DeepXmlFiles(d) ==
    { p \in DOMAIN FileSystem : IsUnder(p, d) /\ endswith(p, DotXml) }

\* C12 (scanner selection): the file list of a load is (1) the given path
\* alone when it is a single file, whatever its extension and the recursive
\* flag; (2) for a directory in recursive mode, every file at any depth
\* whose name ends in .xml, and no .json file; (3) for a directory in flat
\* mode, exactly the files directly inside it that match *.xml or *.json.
C12_ScannerSelection ==
    result.op = "load" =>
        /\ isfile(xml_dirpath) => DOMAIN dir = {xml_dirpath}
        /\ (isdir(xml_dirpath) /\ recursive) =>
              /\ DOMAIN dir = DeepXmlFiles(xml_dirpath)
              /\ \A p \in DOMAIN dir : ~endswith(p, DotJson)
        /\ (isdir(xml_dirpath) /\ ~recursive) =>
              DOMAIN dir = FlatFiles(xml_dirpath)

\* strictly ascending in lexicographic order
Ascending(list) ==
    \A i \in DOMAIN list : \A j \in DOMAIN list :
        i < j => LexLess(list[i], list[j])

IdentifiersOf(list) == [i \in DOMAIN list |-> list[i].identifier]

\* the order of processing of a load so far
SequentialOrder ==
    result.op = "load" =>
        /\ Ascending(opened)
        /\ \A i \in DOMAIN opened : opened[i] \in DOMAIN dir
        /\ \A p \in (DOMAIN dir) \ { opened[i] : i \in DOMAIN opened } :
              /\ outcomes[p] = <<>>
              /\ \A i \in DOMAIN opened : LexLess(opened[i], p)
        /\ \A i \in DOMAIN opened :
              /\ Len(outcomes[opened[i]]) <= Len(RecordsOf(dir[opened[i]]))
              /\ IdentifiersOf(outcomes[opened[i]]) =
                    SubSeq(IdentifiersOf(RecordsOf(dir[opened[i]])), 1,
                           Len(outcomes[opened[i]]))
              /\ (i < Len(opened) \/ result.status = "returned") =>
                    Len(outcomes[opened[i]]) = Len(RecordsOf(dir[opened[i]]))
        /\ SortedLists[xml_dirpath, recursive] = {sorted_files}
        /\ result.status = "returned" =>
              { opened[i] : i \in DOMAIN opened } = DOMAIN dir

\* C16 (deterministic sequential order): a load opens the scanned files one
\* at a time in strictly ascending lexicographic order of full path,
\* whatever the order in which they were discovered, so none twice; the
\* records of a file are all handed to the repository, in document order,
\* before the next file is opened; a load that returns has opened every
\* scanned file; and every load that starts ends.
C16_DeterministicOrder ==
    /\ []SequentialOrder
    /\ (pc = "load") ~> (pc = "idle")

\* a recursive load of the tree returned: four files, /t/s.xml/f.xml taken
\* before /t/s/d.xml, each with its records handed over
C16_Witness ==
    /\ result.op = "load" /\ result.status = "returned"
    /\ xml_dirpath = Top /\ recursive
    /\ Len(opened) = 4
    /\ opened[3] = Slash(SubXml, <<"f">> \o DotXml)
    /\ opened[4] = Slash(Sub, <<"d">> \o DotXml)
    /\ \A i \in DOMAIN opened : outcomes[opened[i]] # <<>>

====
